---- MODULE Spec2Model ----
(***************************************************************************)
(* GPIO adapter (gpio-adapter.js): configuration migration and loading,    *)
(* device construction, the per-property debounce filter, asynchronous     *)
(* pin writes and the pressed/released events derived from pin reads.      *)
(*                                                                         *)
(* Encoding of JavaScript values:                                          *)
(*  - an object is a function from its own keys to values, so              *)
(*    obj.hasOwnProperty(k) is k \in DOMAIN obj;                           *)
(*  - the keys of the per-pin maps are the pin numbers (JavaScript stores  *)
(*    them as the decimal strings "4", "17"; for..in visits such keys in   *)
(*    ascending numeric order);                                            *)
(*  - an own key whose value is undefined holds the string "undefined";    *)
(*  - the JSON numbers of 'value' are the strings "0" and "1", the number  *)
(*    of 'debounce' is a natural number (milliseconds);                    *)
(*  - the 'gpios' item is [isArray, items, map]: items when it is an       *)
(*    array, map when it is the old object form.                           *)
(* Pin levels are the logical levels seen through the onoff handle: 0, 1.  *)
(***************************************************************************)
EXTENDS Integers, Sequences, FiniteSets, TLC

VARIABLES
  pc,              \* progress of loadGpioAdapter / the GpioAdapter constructor
  hasDatabase,     \* truthiness of gateway-addon's Database export
  installedConfig, \* the configuration the installation holds at start-up:
                   \* what db.loadConfig() finds and the gateway put into
                   \* the manifest
  manifestConfig,  \* manifest.moziot.config
  saveState,       \* db.saveConfig: "none", "pending", "ok", "failed"
  savedGpios,      \* the gpios array handed to db.saveConfig
  adapterAdded,    \* addonManager.addAdapter(this) was called
  gpios,           \* the constructor's local map pin -> pinConfig
  todo,            \* pins the constructor's for..in loop has not reached yet
  threw,           \* an exception left the GpioAdapter constructor
  pinConfig,       \* device.pinConfig of every GpioDevice built so far
  registered,      \* pins whose device was passed to handleDeviceAdded
  level,           \* logical level of each pin
  pendingEdges,    \* edge interrupts raised and not yet dispatched, per pin
  props,           \* the GpioProperty objects, keyed by <<pin, name>>
  inflight,        \* gpio.write calls whose completion is not yet delivered
  stimuli,         \* level changes and setValue calls made so far
  timersPhase,     \* the event loop is running its due timers
  windowLevel,     \* history: the pin's level when the edge that started a
                   \* property's latest debounce period was dispatched
  trace            \* calls made by the handler that ran last, in order

vars == <<pc, hasDatabase, installedConfig, manifestConfig, saveState,
          savedGpios, adapterAdded, gpios, todo, threw, pinConfig, registered,
          level, pendingEdges, props, inflight, stimuli, timersPhase,
          windowLevel, trace>>

(***************************************************************************)
(* Bounds of the model.                                                    *)
(***************************************************************************)
MaxPending == 1   \* edge interrupts queued per pin (further ones coalesce)

MaxStimuli == 3   \* level changes and setValue calls made in one run

MaxItems == 2     \* entries of a 'gpios' array in a stored configuration

Pins == {4, 17}

(***************************************************************************)
(* Program constants.                                                      *)
(***************************************************************************)
DefaultDebounce == 10

Undefined == "undefined"

(***************************************************************************)
(* JavaScript helpers.                                                     *)
(***************************************************************************)
EmptyObject == [k \in {} |-> Undefined]

hasOwnProperty(obj, k) == k \in DOMAIN obj

\* Object.assign(a, b): the own keys of b overwrite those of a.
ObjectAssign(a, b) ==
  [k \in DOMAIN a \cup DOMAIN b |-> IF k \in DOMAIN b THEN b[k] ELSE a[k]]

\* obj.k, which is undefined when obj has no such key.
Get(obj, k) == IF k \in DOMAIN obj THEN obj[k] ELSE Undefined

Min(S) == CHOOSE m \in S : \A n \in S : m <= n

RECURSIVE ForInOrder(_)
\* The order in which for..in visits integer-like keys: ascending.
ForInOrder(S) ==
  IF S = {} THEN <<>> ELSE <<Min(S)>> \o ForInOrder(S \ {Min(S)})

(***************************************************************************)
(* Configuration: GpioAdapter constructor, lines 206-229.                  *)
(***************************************************************************)
\* The object the constructor stores for one entry of the gpios array.
ArrayEntry(gpio) ==
  [name |-> Get(gpio, "name"),
   direction |-> Get(gpio, "direction"),
   value |-> Get(gpio, "value"),
   activeLow |-> Get(gpio, "activeLow")]

RECURSIVE ApplyArray(_, _)
\* for (const gpio of config.gpios) gpios[gpio.pin.toFixed(0)] = {...}
ApplyArray(map, items) ==
  IF items = <<>> THEN map
  ELSE ApplyArray(
         ObjectAssign(map, [k \in {Head(items).pin} |-> ArrayEntry(Head(items))]),
         Tail(items))

\* Mutant of AdapterGpios: 'pins' is applied after 'gpios'.
AdapterGpiosPinsLast(config) ==
  LET g1 == IF hasOwnProperty(config, "gpios")
            THEN IF config.gpios.isArray
                 THEN ApplyArray(EmptyObject, config.gpios.items)
                 ELSE ObjectAssign(EmptyObject, config.gpios.map)
            ELSE EmptyObject
  IN  IF hasOwnProperty(config, "pins")
      THEN ObjectAssign(g1, config.pins)
      ELSE g1

\* The map pin -> pinConfig the constructor iterates over.
AdapterGpios(config) ==
  LET g1 == IF hasOwnProperty(config, "pins")
            THEN ObjectAssign(EmptyObject, config.pins)
            ELSE EmptyObject
  IN  IF hasOwnProperty(config, "gpios")
      THEN IF config.gpios.isArray
           THEN ApplyArray(g1, config.gpios.items)
           ELSE ObjectAssign(g1, config.gpios.map)
      ELSE g1

(***************************************************************************)
(* Migration: loadGpioAdapter, lines 246-269.                              *)
(***************************************************************************)
OldGpios(config) ==
  LET o1 == IF hasOwnProperty(config, "pins")
            THEN ObjectAssign(EmptyObject, config.pins)
            ELSE EmptyObject
  IN  IF hasOwnProperty(config, "gpios") /\ ~config.gpios.isArray
      THEN ObjectAssign(o1, config.gpios.map)
      ELSE o1

\* One array entry per old pin, carrying its number in 'pin' (parseInt).
MigratedGpios(config) ==
  LET old == OldGpios(config)
      order == ForInOrder(DOMAIN old)
  IN  [i \in 1..Len(order) |->
         ObjectAssign(ObjectAssign(EmptyObject, old[order[i]]),
                      [pin |-> order[i]])]

ArrayForm(items) == [isArray |-> TRUE, items |-> items, map |-> EmptyObject]

ObjectForm(map) == [isArray |-> FALSE, items |-> <<>>, map |-> map]

(***************************************************************************)
(* GpioDevice constructor, lines 85-115: the defaults it fills in.         *)
(***************************************************************************)
DeviceId(pin) == "gpio-" \o ToString(pin)

ResolvePinConfig(pin, cfg) ==
  LET c1 == IF ~hasOwnProperty(cfg, "direction")
            THEN ObjectAssign(cfg, [direction |-> "in"]) ELSE cfg
      c2 == IF ~hasOwnProperty(c1, "name")
            THEN ObjectAssign(c1, [name |-> DeviceId(pin)]) ELSE c1
      c3 == IF c2.direction = "in"
            THEN LET e == IF ~hasOwnProperty(c2, "edge")
                          THEN ObjectAssign(c2, [edge |-> "both"]) ELSE c2
                 IN  IF ~hasOwnProperty(e, "debounce")
                     THEN ObjectAssign(e, [debounce |-> DefaultDebounce]) ELSE e
            ELSE IF c2.direction = "out"
            THEN IF ~hasOwnProperty(c2, "value")
                 THEN ObjectAssign(c2, [value |-> "0"]) ELSE c2
            ELSE c2
  IN  ObjectAssign(c3, [pin |-> ToString(pin)])

\* The level gpio.writeSync(value) drives: high for the number 1 only.
WriteSyncLevel(value) == IF value = "1" THEN 1 ELSE 0

\* Mutant of openOutput: the initial value is not written.
openOutputNoWrite(pin, cfg) ==
  [level |-> 0,
   out   |-> << [op |-> "Gpio", pin |-> pin, direction |-> "out", threw |-> FALSE],
                [op |-> "directionSet", pin |-> pin, level |-> 0] >>]

\* Lines 103-112: new Gpio(pin, 'out') writes the direction file, which drives
\* the line low whatever it was, then the initial value is written.
\* [level |-> the line afterwards, out |-> the calls made, in order].
openOutput(pin, cfg) ==
  [level |-> WriteSyncLevel(cfg.value),
   out   |-> << [op |-> "Gpio", pin |-> pin, direction |-> "out", threw |-> FALSE],
                [op |-> "directionSet", pin |-> pin, level |-> 0],
                [op |-> "writeSync", pin |-> pin,
                 level |-> WriteSyncLevel(cfg.value)] >>]

(***************************************************************************)
(* GpioProperty, lines 18-76.  A property is                               *)
(*   [atType, value, debouncing, timer, watching]                          *)
(* where timer is the time left on its pending setTimeout, -1 for none.    *)
(* Each operator returns [prop |-> the property afterwards,                *)
(*                        out  |-> the calls it made, in order].           *)
(***************************************************************************)
NoTimer == -1

\* Property.setCachedValue of a boolean property: this.value = !!value
setCachedValue(lvl) == lvl # 0

\* Mutant of update: the names of the two events are exchanged.
updateSwappedEvents(pr, pin, name, lvl) ==
  LET v == setCachedValue(lvl)
  IN  [prop |-> [pr EXCEPT !.value = v],
       out  |-> << [op |-> "readSync", pin |-> pin, prop |-> name, level |-> lvl],
                   [op |-> "setCachedValue", pin |-> pin, prop |-> name, value |-> v],
                   [op |-> "notifyPropertyChanged", pin |-> pin, prop |-> name,
                    value |-> v] >>
                \o (IF pr.atType = "PushedProperty"
                    THEN << [op |-> "notifyEvent", pin |-> pin,
                             event |-> IF v THEN "released" ELSE "pressed"] >>
                    ELSE << >>)]

\* Mutant of update: the notification is sent only when the value changed.
updateNotifyOnChange(pr, pin, name, lvl) ==
  LET v == setCachedValue(lvl)
  IN  [prop |-> [pr EXCEPT !.value = v],
       out  |-> << [op |-> "readSync", pin |-> pin, prop |-> name, level |-> lvl],
                   [op |-> "setCachedValue", pin |-> pin, prop |-> name, value |-> v] >>
                \o (IF v # pr.value
                    THEN << [op |-> "notifyPropertyChanged", pin |-> pin,
                             prop |-> name, value |-> v] >>
                    ELSE << >>)
                \o (IF pr.atType = "PushedProperty"
                    THEN << [op |-> "notifyEvent", pin |-> pin,
                             event |-> IF v THEN "pressed" ELSE "released"] >>
                    ELSE << >>)]

\* update(), lines 68-75.
update(pr, pin, name, lvl) ==
  LET v == setCachedValue(lvl)
  IN  [prop |-> [pr EXCEPT !.value = v],
       out  |-> << [op |-> "readSync", pin |-> pin, prop |-> name, level |-> lvl],
                   [op |-> "setCachedValue", pin |-> pin, prop |-> name, value |-> v],
                   [op |-> "notifyPropertyChanged", pin |-> pin, prop |-> name,
                    value |-> v] >>
                \o (IF pr.atType = "PushedProperty"
                    THEN << [op |-> "notifyEvent", pin |-> pin,
                             event |-> IF v THEN "pressed" ELSE "released"] >>
                    ELSE << >>)]

\* Mutant of watchCallback: the check of this.debouncing is missing, so every
\* edge schedules a timer.
watchCallbackNoGuard(pr, cfg, pin, name, lvl) ==
  IF cfg.debounce = 0
  THEN update(pr, pin, name, lvl)
  ELSE [prop |-> [pr EXCEPT !.debouncing = TRUE, !.timer = cfg.debounce],
        out  |-> << [op |-> "setTimeout", pin |-> pin, prop |-> name,
                     delay |-> cfg.debounce] >>]

\* Mutant of watchCallback: the test for a zero debounce is missing, so a zero
\* debounce goes through setTimeout as well.
watchCallbackAlwaysDebounce(pr, cfg, pin, name, lvl) ==
  IF ~pr.debouncing
  THEN [prop |-> [pr EXCEPT !.debouncing = TRUE, !.timer = cfg.debounce],
        out  |-> << [op |-> "setTimeout", pin |-> pin, prop |-> name,
                     delay |-> cfg.debounce] >>]
  ELSE [prop |-> pr, out |-> << >>]

\* The callback given to gpio.watch, lines 26-40.
watchCallback(pr, cfg, pin, name, lvl) ==
  IF cfg.debounce = 0
  THEN update(pr, pin, name, lvl)
  ELSE IF ~pr.debouncing
  THEN [prop |-> [pr EXCEPT !.debouncing = TRUE, !.timer = cfg.debounce],
        out  |-> << [op |-> "setTimeout", pin |-> pin, prop |-> name,
                     delay |-> cfg.debounce] >>]
  ELSE [prop |-> pr, out |-> << >>]

\* Mutant of timerCallback: the debounce period ends without reading the pin.
timerCallbackNoRead(pr, pin, name, lvl) ==
  [prop |-> [pr EXCEPT !.debouncing = FALSE, !.timer = NoTimer],
   out  |-> << [op |-> "notifyPropertyChanged", pin |-> pin, prop |-> name,
                value |-> pr.value] >>]

\* Mutant of timerCallback: this.debouncing is not cleared.
timerCallbackStaysDebouncing(pr, pin, name, lvl) ==
  update([pr EXCEPT !.timer = NoTimer], pin, name, lvl)

\* The callback given to setTimeout, lines 34-38.
timerCallback(pr, pin, name, lvl) ==
  update([pr EXCEPT !.debouncing = FALSE, !.timer = NoTimer], pin, name, lvl)

\* new GpioProperty(device, name, descr), lines 19-42.
GpioProperty(cfg, pin, name, atType, lvl) ==
  LET fresh == [atType |-> atType, value |-> FALSE, debouncing |-> FALSE,
                timer |-> NoTimer, watching |-> FALSE]
      u == update(fresh, pin, name, lvl)
  IN  IF cfg.direction = "in"
      THEN [prop |-> [u.prop EXCEPT !.watching = TRUE],
            out  |-> u.out \o << [op |-> "watch", pin |-> pin, prop |-> name] >>]
      ELSE u

\* Mutant of writeCallback: a failed write rejects but caches the value too.
writeCallbackStoresOnError(pr, pin, name, value, err) ==
  IF err
  THEN [prop |-> [pr EXCEPT !.value = value],
        out  |-> << [op |-> "reject", pin |-> pin, prop |-> name] >>]
  ELSE [prop |-> [pr EXCEPT !.value = value],
        out  |-> << [op |-> "setCachedValue", pin |-> pin, prop |-> name,
                     value |-> value],
                    [op |-> "resolve", pin |-> pin, prop |-> name, value |-> value],
                    [op |-> "notifyPropertyChanged", pin |-> pin, prop |-> name,
                     value |-> value] >>]

\* The completion callback of gpio.write in setValue, lines 53-64.
writeCallback(pr, pin, name, value, err) ==
  IF err
  THEN [prop |-> pr,
        out  |-> << [op |-> "reject", pin |-> pin, prop |-> name] >>]
  ELSE [prop |-> [pr EXCEPT !.value = value],
        out  |-> << [op |-> "setCachedValue", pin |-> pin, prop |-> name,
                     value |-> value],
                    [op |-> "resolve", pin |-> pin, prop |-> name, value |-> value],
                    [op |-> "notifyPropertyChanged", pin |-> pin, prop |-> name,
                     value |-> value] >>]

(***************************************************************************)
(* The configurations the model starts from.                               *)
(***************************************************************************)
PinMap(c4, c17) == [p \in Pins |-> IF p = 4 THEN c4 ELSE c17]

OnePin(p, c) == [q \in {p} |-> c]

WithPin(p, c) == ObjectAssign(c, [pin |-> p])

\* [database, config]: whether gateway-addon exports Database, and the stored
\* configuration, which the gateway also hands over as manifest.moziot.config.
Installs ==
  { [database |-> FALSE,
     config |-> [pins |-> PinMap([direction |-> "in", debounce |-> 0],
                                 [direction |-> "out", value |-> "1"])]],
    [database |-> TRUE,
     config |-> [pins |-> PinMap([direction |-> "in", debounce |-> 0],
                                 [direction |-> "out", value |-> "1"])]],
    [database |-> FALSE,
     config |-> [pins |-> PinMap(EmptyObject, [direction |-> "out"])]],
    [database |-> FALSE,
     config |-> [gpios |-> ObjectForm(
                   PinMap([direction |-> "in", debounce |-> 2, edge |-> "rising"],
                          [direction |-> "in", debounce |-> 0]))]],
    [database |-> TRUE,
     config |-> [gpios |-> ObjectForm(
                   PinMap([direction |-> "bogus"],
                          [direction |-> "in", debounce |-> 1]))]],
    [database |-> TRUE,
     config |-> [gpios |-> ArrayForm(
                   << WithPin(17, [name |-> "led", direction |-> "out"]),
                      WithPin(4, EmptyObject) >>)]],
    [database |-> FALSE,
     config |-> [gpios |-> ArrayForm(
                   << WithPin(4, [direction |-> "in", debounce |-> 0]),
                      WithPin(17, [direction |-> "out", value |-> "1"]) >>)]],
    [database |-> TRUE,
     config |-> [pins  |-> OnePin(4, [name |-> "a", direction |-> "in",
                                      debounce |-> 0]),
                 gpios |-> ObjectForm(OnePin(4, [name |-> "b",
                                                 direction |-> "out"]))]],
    [database |-> FALSE,
     config |-> [pins  |-> OnePin(4, [name |-> "a", direction |-> "in",
                                      debounce |-> 0]),
                 gpios |-> ObjectForm(OnePin(4, [name |-> "b"]))]],
    [database |-> TRUE, config |-> EmptyObject],
    [database |-> FALSE, config |-> [gpios |-> ArrayForm(<< >>)]] }

Init ==
  /\ pc = "load"
  /\ \E i \in Installs : /\ hasDatabase = i.database
                         /\ installedConfig = i.config
                         /\ manifestConfig = i.config
  /\ saveState = "none"
  /\ savedGpios = << >>
  /\ adapterAdded = FALSE
  /\ gpios = EmptyObject
  /\ todo = << >>
  /\ threw = FALSE
  /\ pinConfig = EmptyObject
  /\ registered = {}
  /\ level = [p \in Pins |-> 0]
  /\ pendingEdges = [p \in Pins |-> 0]
  /\ props = EmptyObject
  /\ inflight = << >>
  /\ stimuli = 0
  /\ timersPhase = FALSE
  /\ windowLevel = EmptyObject
  /\ trace = << >>

(***************************************************************************)
(* loadGpioAdapter, lines 237-276.                                         *)
(***************************************************************************)
startupVars == <<hasDatabase, installedConfig, adapterAdded, gpios, todo,
                 threw, pinConfig, registered, level, pendingEdges, props,
                 inflight, stimuli, timersPhase, windowLevel>>

\* Database is not exported: the adapter is built from the manifest as it is.
LoadNoDatabase ==
  /\ pc = "load" /\ ~hasDatabase
  /\ pc' = "adapter"
  /\ trace' = << >>
  /\ UNCHANGED <<manifestConfig, saveState, savedGpios, startupVars>>

\* db.open() or db.loadConfig() rejects: the chain's later steps never run.
LoadFails ==
  /\ pc = "load" /\ hasDatabase
  /\ pc' = "rejected"
  /\ trace' = << [op |-> "loadConfig", failed |-> TRUE] >>
  /\ UNCHANGED <<manifestConfig, saveState, savedGpios, startupVars>>

\* The stored configuration is loaded (it is the one the gateway put into the
\* manifest) and, when it has pins in an old form, rewritten and saved.
LoadAndMigrate ==
  /\ pc = "load" /\ hasDatabase
  /\ LET migrated == MigratedGpios(manifestConfig)
     IN  IF Len(migrated) > 0
         THEN /\ manifestConfig' =
                   ObjectAssign(manifestConfig, [gpios |-> ArrayForm(migrated)])
              /\ savedGpios' = migrated
              /\ saveState' = "pending"
              /\ pc' = "saving"
              /\ trace' = << [op |-> "loadConfig", failed |-> FALSE],
                             [op |-> "saveConfig"] >>
         ELSE /\ pc' = "adapter"
              /\ trace' = << [op |-> "loadConfig", failed |-> FALSE] >>
              /\ UNCHANGED <<manifestConfig, savedGpios, saveState>>
  /\ UNCHANGED startupVars

\* db.saveConfig settles: promise.then(() => new GpioAdapter(...)) runs its
\* callback only when the promise is fulfilled.
SaveSettles(ok) ==
  /\ pc = "saving"
  /\ saveState' = IF ok THEN "ok" ELSE "failed"
  /\ pc' = IF ok THEN "adapter" ELSE "rejected"
  /\ trace' = << >>
  /\ UNCHANGED <<manifestConfig, savedGpios, startupVars>>

(***************************************************************************)
(* GpioAdapter constructor, lines 202-234.  The constructor is one         *)
(* synchronous call; it is split into its prologue and one step per        *)
(* iteration of its loop, and nothing else runs until it has returned or   *)
(* thrown.                                                                 *)
(***************************************************************************)
loadVars == <<hasDatabase, installedConfig, manifestConfig, saveState,
             savedGpios>>

AdapterCtor ==
  /\ pc = "adapter"
  /\ adapterAdded' = TRUE
  /\ gpios' = AdapterGpios(manifestConfig)
  /\ todo' = ForInOrder(DOMAIN gpios')
  /\ pc' = IF todo' = << >> THEN "running" ELSE "devices"
  /\ trace' = << [op |-> "addAdapter"] >>
  /\ UNCHANGED <<loadVars, threw, pinConfig, registered, level, pendingEdges,
                 props, inflight, stimuli, timersPhase, windowLevel>>

AfterDevice == IF Tail(todo) = << >> THEN "running" ELSE "devices"

\* new Gpio(pin, ...) throws: the exception leaves the GpioDevice constructor,
\* the loop and the GpioAdapter constructor.
DeviceCtorThrows ==
  /\ pc = "devices"
  /\ LET pin == Head(todo)
         cfg == ResolvePinConfig(pin, gpios[pin])
     IN  /\ cfg.direction \in {"in", "out"}
         /\ trace' = << [op |-> "Gpio", pin |-> pin, direction |-> cfg.direction,
                         threw |-> TRUE] >>
  /\ threw' = TRUE
  /\ pc' = "running"
  /\ UNCHANGED <<loadVars, adapterAdded, gpios, todo, pinConfig, registered,
                 level, pendingEdges, props, inflight, stimuli, timersPhase,
                 windowLevel>>

\* new GpioDevice(this, pin, gpios[pin]) for an input pin, whose line is at
\* level lvl when it is opened.
DeviceCtorIn(lvl) ==
  /\ pc = "devices"
  /\ LET pin == Head(todo)
         cfg == ResolvePinConfig(pin, gpios[pin])
         on == GpioProperty(cfg, pin, "on", "BooleanProperty", lvl)
         pushed == GpioProperty(cfg, pin, "pushed", "PushedProperty", lvl)
     IN  /\ cfg.direction = "in"
         /\ level' = [level EXCEPT ![pin] = lvl]
         /\ pinConfig' = ObjectAssign(pinConfig, OnePin(pin, cfg))
         /\ props' = ObjectAssign(props,
                       [k \in {<<pin, "on">>, <<pin, "pushed">>} |->
                          IF k[2] = "on" THEN on.prop ELSE pushed.prop])
         /\ registered' = registered \cup {pin}
         /\ trace' = << [op |-> "Gpio", pin |-> pin, direction |-> "in",
                         threw |-> FALSE] >>
                     \o on.out \o pushed.out
                     \o << [op |-> "handleDeviceAdded", pin |-> pin] >>
  /\ todo' = Tail(todo)
  /\ pc' = AfterDevice
  /\ UNCHANGED <<loadVars, adapterAdded, gpios, threw, pendingEdges, inflight,
                 stimuli, timersPhase, windowLevel>>

\* The same for an output pin: configuring the direction drives the line low,
\* then the initial value is written.
DeviceCtorOut ==
  /\ pc = "devices"
  /\ LET pin == Head(todo)
         cfg == ResolvePinConfig(pin, gpios[pin])
         opened == openOutput(pin, cfg)
         on == GpioProperty(cfg, pin, "on", "OnOffProperty", opened.level)
     IN  /\ cfg.direction = "out"
         /\ level' = [level EXCEPT ![pin] = opened.level]
         /\ pinConfig' = ObjectAssign(pinConfig, OnePin(pin, cfg))
         /\ props' = ObjectAssign(props, [k \in {<<pin, "on">>} |-> on.prop])
         /\ registered' = registered \cup {pin}
         /\ trace' = opened.out \o on.out
                     \o << [op |-> "handleDeviceAdded", pin |-> pin] >>
  /\ todo' = Tail(todo)
  /\ pc' = AfterDevice
  /\ UNCHANGED <<loadVars, adapterAdded, gpios, threw, pendingEdges, inflight,
                 stimuli, timersPhase, windowLevel>>

\* Any other direction: no pin is opened and the device is not added.
DeviceCtorUnsupported ==
  /\ pc = "devices"
  /\ LET pin == Head(todo)
         cfg == ResolvePinConfig(pin, gpios[pin])
     IN  /\ cfg.direction \notin {"in", "out"}
         /\ pinConfig' = ObjectAssign(pinConfig, OnePin(pin, cfg))
         /\ trace' = << [op |-> "unsupportedDirection", pin |-> pin] >>
  /\ todo' = Tail(todo)
  /\ pc' = AfterDevice
  /\ UNCHANGED <<loadVars, adapterAdded, gpios, threw, registered, level,
                 pendingEdges, props, inflight, stimuli, timersPhase,
                 windowLevel>>

(***************************************************************************)
(* The running adapter: the pins' lines, the event loop's callbacks and    *)
(* the gateway's calls of setValue.                                        *)
(***************************************************************************)
configVars == <<pc, loadVars, adapterAdded, gpios, todo, threw, pinConfig,
                registered>>

InputPins == {p \in DOMAIN pinConfig : pinConfig[p].direction = "in"}

\* Whether a change to level lvl raises an interrupt under the pin's edge.
RaisesInterrupt(edge, lvl) ==
  \/ edge = "both"
  \/ edge = "rising" /\ lvl = 1
  \/ edge = "falling" /\ lvl = 0

\* The line of an input pin changes level.  Interrupts not yet dispatched
\* coalesce once MaxPending of them are queued.
PinChange(pin) ==
  /\ pc = "running"
  /\ pin \in InputPins
  /\ stimuli < MaxStimuli
  /\ stimuli' = stimuli + 1
  /\ level' = [level EXCEPT ![pin] = 1 - level[pin]]
  /\ pendingEdges' =
       IF RaisesInterrupt(pinConfig[pin].edge, 1 - level[pin])
          /\ pendingEdges[pin] < MaxPending
       THEN [pendingEdges EXCEPT ![pin] = @ + 1]
       ELSE pendingEdges
  /\ trace' = << >>
  /\ UNCHANGED <<configVars, props, inflight, timersPhase, windowLevel>>

\* One interrupt of a pin is dispatched: onoff calls the callbacks given to
\* gpio.watch in the order they were registered, 'on' then 'pushed'.
EdgeDispatch(pin) ==
  /\ pc = "running" /\ ~timersPhase
  /\ pendingEdges[pin] > 0
  /\ pendingEdges' = [pendingEdges EXCEPT ![pin] = @ - 1]
  /\ LET cfg == pinConfig[pin]
         on == watchCallback(props[<<pin, "on">>], cfg, pin, "on", level[pin])
         pushed == watchCallback(props[<<pin, "pushed">>], cfg, pin, "pushed",
                                 level[pin])
     IN  /\ props' = [props EXCEPT ![<<pin, "on">>] = on.prop,
                                   ![<<pin, "pushed">>] = pushed.prop]
         /\ trace' = << [op |-> "interrupt", pin |-> pin] >> \o on.out \o pushed.out
         /\ windowLevel' =
              ObjectAssign(windowLevel,
                [k \in {j \in {<<pin, "on">>, <<pin, "pushed">>} :
                          ~props[j].debouncing /\ props'[j].debouncing} |->
                   level[pin]])
  /\ UNCHANGED <<configVars, level, inflight, stimuli, timersPhase>>

DueTimers == {k \in DOMAIN props : props[k].timer = 0}

PendingTimers == {k \in DOMAIN props : props[k].timer # NoTimer}

\* One millisecond passes; a timer that is due runs before more time passes.
Tick ==
  /\ pc = "running"
  /\ PendingTimers # {} /\ DueTimers = {}
  /\ props' = [k \in DOMAIN props |->
                 IF props[k].timer # NoTimer
                 THEN [props[k] EXCEPT !.timer = @ - 1] ELSE props[k]]
  /\ trace' = << >>
  /\ UNCHANGED <<configVars, level, pendingEdges, inflight, stimuli, timersPhase, windowLevel>>

\* A due timer's callback runs.  The event loop runs all due timers before it
\* dispatches anything else.
TimerFire(k) ==
  /\ pc = "running"
  /\ k \in DueTimers
  /\ LET r == timerCallback(props[k], k[1], k[2], level[k[1]])
     IN  /\ props' = [props EXCEPT ![k] = r.prop]
         /\ trace' = << [op |-> "timeout", pin |-> k[1], prop |-> k[2]] >> \o r.out
  /\ timersPhase' = (DueTimers \ {k} # {})
  /\ UNCHANGED <<configVars, level, pendingEdges, inflight, stimuli, windowLevel>>

\* property.setValue(value), lines 51-66: the write is started at once.
setValue(k, value) ==
  /\ pc = "running" /\ ~timersPhase
  /\ k \in DOMAIN props
  /\ stimuli < MaxStimuli
  /\ stimuli' = stimuli + 1
  /\ inflight' = Append(inflight, [pin |-> k[1], prop |-> k[2], value |-> value,
                                   cachedAtIssue |-> props[k].value])
  /\ trace' = << [op |-> "write", pin |-> k[1], prop |-> k[2],
                  level |-> IF value THEN 1 ELSE 0] >>
  /\ UNCHANGED <<configVars, level, pendingEdges, props, timersPhase, windowLevel>>

RemoveAt(seq, i) == SubSeq(seq, 1, i - 1) \o SubSeq(seq, i + 1, Len(seq))

\* The i-th write in flight completes, with an error or leaving the line at
\* level latched.  The value file of an input pin cannot be written.
WriteDone(i, err, latched) ==
  /\ pc = "running" /\ ~timersPhase
  /\ i \in 1..Len(inflight)
  /\ LET w == inflight[i]
         k == <<w.pin, w.prop>>
         r == writeCallback(props[k], w.pin, w.prop, w.value, err)
     IN  /\ pinConfig[w.pin].direction = "in" => err
         /\ err => latched = level[w.pin]
         /\ level' = [level EXCEPT ![w.pin] = latched]
         /\ props' = [props EXCEPT ![k] = r.prop]
         /\ trace' = << [op |-> "writeDone", pin |-> w.pin, prop |-> w.prop,
                         value |-> w.value, err |-> err,
                         cachedAtIssue |-> w.cachedAtIssue] >> \o r.out
  /\ inflight' = RemoveAt(inflight, i)
  /\ UNCHANGED <<configVars, pendingEdges, stimuli, timersPhase, windowLevel>>

Next ==
  \/ LoadNoDatabase
  \/ LoadFails
  \/ LoadAndMigrate
  \/ \E ok \in BOOLEAN : SaveSettles(ok)
  \/ AdapterCtor
  \/ DeviceCtorThrows
  \/ \E lvl \in {0, 1} : DeviceCtorIn(lvl)
  \/ DeviceCtorOut
  \/ DeviceCtorUnsupported
  \/ \E pin \in Pins : PinChange(pin)
  \/ \E pin \in Pins : EdgeDispatch(pin)
  \/ Tick
  \/ \E k \in DOMAIN props : TimerFire(k)
  \/ \E k \in DOMAIN props, value \in BOOLEAN : setValue(k, value)
  \/ \E i \in 1..MaxStimuli, err \in BOOLEAN, latched \in {0, 1} :
       WriteDone(i, err, latched)

Spec == Init /\ [][Next]_vars

(***************************************************************************)
(* The adapter while the gateway makes no call of setValue, with the       *)
(* event loop's guarantee about timers: while the process runs, time       *)
(* passes and a timer that is due has its callback run.  Nothing is        *)
(* assumed about level changes or the dispatch of interrupts.              *)
(***************************************************************************)
PropertyKeys == Pins \X {"on", "pushed"}

WatchNext ==
  \/ LoadNoDatabase
  \/ LoadFails
  \/ LoadAndMigrate
  \/ \E ok \in BOOLEAN : SaveSettles(ok)
  \/ AdapterCtor
  \/ DeviceCtorThrows
  \/ \E lvl \in {0, 1} : DeviceCtorIn(lvl)
  \/ DeviceCtorOut
  \/ DeviceCtorUnsupported
  \/ \E pin \in Pins : PinChange(pin)
  \/ \E pin \in Pins : EdgeDispatch(pin)
  \/ Tick
  \/ \E k \in DOMAIN props : TimerFire(k)

FairSpec ==
  /\ Init /\ [][WatchNext]_vars
  /\ WF_vars(Tick)
  /\ \A k \in PropertyKeys : WF_vars(TimerFire(k))

(***************************************************************************)
(* Start-up alone, from every stored configuration built of a few per-pin  *)
(* records: loadGpioAdapter and the GpioAdapter constructor run to the     *)
(* end, nothing happens to the pins afterwards.                            *)
(***************************************************************************)
\* Per-pin records as a user may have stored them.
PinRecords ==
  { EmptyObject,
    [name |-> "b"],
    [direction |-> "in", edge |-> "rising", debounce |-> 0],
    [name |-> "a", direction |-> "out", value |-> "1"] }

\* The old per-pin maps: 'pins', and 'gpios' before it became an array.
LegacyMaps == UNION {[S -> PinRecords] : S \in SUBSET Pins}

\* The 'gpios' arrays of up to MaxItems entries.
GpioArrays ==
  UNION {[1..n -> {WithPin(p, r) : p \in Pins, r \in PinRecords}] :
           n \in 0..MaxItems}

StoredConfigs ==
  LET none == {EmptyObject}
      withPins == {[pins |-> m] : m \in LegacyMaps}
      withGpios == {[gpios |-> ObjectForm(m)] : m \in LegacyMaps}
                     \cup {[gpios |-> ArrayForm(a)] : a \in GpioArrays}
  IN  {ObjectAssign(a, b) : a \in none \cup withPins, b \in none \cup withGpios}

ConfigInit ==
  /\ pc = "load"
  /\ hasDatabase \in BOOLEAN
  /\ installedConfig \in StoredConfigs
  /\ manifestConfig = installedConfig
  /\ saveState = "none"
  /\ savedGpios = << >>
  /\ adapterAdded = FALSE
  /\ gpios = EmptyObject
  /\ todo = << >>
  /\ threw = FALSE
  /\ pinConfig = EmptyObject
  /\ registered = {}
  /\ level = [p \in Pins |-> 0]
  /\ pendingEdges = [p \in Pins |-> 0]
  /\ props = EmptyObject
  /\ inflight = << >>
  /\ stimuli = 0
  /\ timersPhase = FALSE
  /\ windowLevel = EmptyObject
  /\ trace = << >>

ConfigNext ==
  \/ LoadNoDatabase
  \/ LoadFails
  \/ LoadAndMigrate
  \/ \E ok \in BOOLEAN : SaveSettles(ok)
  \/ AdapterCtor
  \/ DeviceCtorThrows
  \/ \E lvl \in {0, 1} : DeviceCtorIn(lvl)
  \/ DeviceCtorOut
  \/ DeviceCtorUnsupported

ConfigSpec == ConfigInit /\ [][ConfigNext]_vars

(***************************************************************************)
(* Reading the trace of the handler that ran last.                         *)
(***************************************************************************)
\* The handler that ran last began with a call of kind op.
HandlerIs(tr, op) == tr # << >> /\ tr[1].op = op

\* Positions of the calls of kind op made for property k = <<pin, name>>;
\* op is a kind whose entries carry a pin and a prop.
OpsOf(tr, k, op) ==
  {i \in 1..Len(tr) : tr[i].op = op /\ tr[i].pin = k[1] /\ tr[i].prop = k[2]}

\* Positions of the calls of kind op made for a pin.
PinOps(tr, pin, op) == {i \in 1..Len(tr) : tr[i].op = op /\ tr[i].pin = pin}

\* The handler that ran last was the timer callback of property k.
TimerFiredFor(tr, k) ==
  HandlerIs(tr, "timeout") /\ tr[1].pin = k[1] /\ tr[1].prop = k[2]

\* The handler that ran last was the dispatch of an interrupt of k's pin.
EdgeDispatchedFor(tr, k) == HandlerIs(tr, "interrupt") /\ tr[1].pin = k[1]

(***************************************************************************)
(* C1  Debounce suppression.  While a property with a positive debounce    *)
(* is in its debounce period, a step that is not its timer callback        *)
(* (an edge dispatch in particular) reads nothing, stores nothing and      *)
(* schedules no timer for it, and leaves its value, its flag and its       *)
(* timer's deadline alone; the timer callback runs when the full delay has *)
(* elapsed and makes exactly one read and one update.                      *)
(***************************************************************************)
C1_DebounceSuppression ==
  [][\A k \in DOMAIN props :
       props[k].debouncing =>
         LET fired == TimerFiredFor(trace', k)
             n == IF fired THEN 1 ELSE 0
         IN  /\ Cardinality(OpsOf(trace', k, "readSync")) = n
             /\ Cardinality(OpsOf(trace', k, "setCachedValue")) = n
             /\ OpsOf(trace', k, "setTimeout") = {}
             /\ fired => props[k].timer = 0 /\ ~props'[k].debouncing
             /\ ~fired => /\ props'[k].value = props[k].value
                          /\ props'[k].debouncing
                          /\ props'[k].timer <= props[k].timer
                          /\ props'[k].timer # NoTimer]_vars

\* An edge was dispatched strictly inside a debounce period and made no call.
C1_Witness ==
  \E k \in DOMAIN props :
    /\ props[k].debouncing
    /\ EdgeDispatchedFor(trace, k) /\ Len(trace) = 1
    /\ 0 < props[k].timer /\ props[k].timer < pinConfig[k[1]].debounce

(***************************************************************************)
(* C2  Zero-debounce passthrough.  A watched property of a pin whose       *)
(* debounce is 0 is never debouncing and never has a timer, and the        *)
(* dispatch of an edge of its pin makes exactly one read and one update    *)
(* for it, storing the level the pin has at that moment.                   *)
(***************************************************************************)
C2_ZeroDebouncePassthrough ==
  \A k \in DOMAIN props :
    (props[k].watching /\ pinConfig[k[1]].debounce = 0) =>
      /\ ~props[k].debouncing
      /\ props[k].timer = NoTimer
      /\ EdgeDispatchedFor(trace, k) =>
           /\ Cardinality(OpsOf(trace, k, "readSync")) = 1
           /\ Cardinality(OpsOf(trace, k, "setCachedValue")) = 1
           /\ Cardinality(OpsOf(trace, k, "notifyPropertyChanged")) = 1
           /\ OpsOf(trace, k, "setTimeout") = {}
           /\ props[k].value = (level[k[1]] # 0)

\* An edge of a pin with debounce 0 was dispatched and stored a high level.
C2_Witness ==
  \E k \in DOMAIN props :
    /\ props[k].watching /\ pinConfig[k[1]].debounce = 0
    /\ EdgeDispatchedFor(trace, k)
    /\ props[k].value

(***************************************************************************)
(* C3  Settle-read correction.  When a debounce timer fires while the pin  *)
(* is at another level than when the edge that started the period was      *)
(* dispatched, the value cached afterwards is the level at the firing.     *)
(***************************************************************************)
C3_SettleReadCorrection ==
  \A k \in DOMAIN props :
    (TimerFiredFor(trace, k) /\ windowLevel[k] # level[k[1]]) =>
      /\ props[k].value = (level[k[1]] # 0)
      /\ \E i \in OpsOf(trace, k, "readSync") : trace[i].level = level[k[1]]

\* A timer fired with the pin at another level than at the opening edge.
C3_Witness ==
  \E k \in DOMAIN props :
    TimerFiredFor(trace, k) /\ windowLevel[k] # level[k[1]]

WritesInFlight(pin) == {i \in 1..Len(inflight) : inflight[i].pin = pin}

(***************************************************************************)
(* C4  At most one write is in flight per pin: no pin ever has two         *)
(* gpio.write calls whose completion callbacks are both outstanding.       *)
(***************************************************************************)
C4_AtMostOneWriteInFlight ==
  \A pin \in Pins : Cardinality(WritesInFlight(pin)) <= 1

\* The property whose write completed in the handler that ran last.
WrittenProp(tr) == <<tr[1].pin, tr[1].prop>>

WriteFailed(tr) == HandlerIs(tr, "writeDone") /\ tr[1].err

WriteSucceeded(tr) == HandlerIs(tr, "writeDone") /\ ~tr[1].err

(***************************************************************************)
(* C5  Write failure leaves state untouched: stated as claimed, and as     *)
(* amended.                                                                *)
(***************************************************************************)
\* C5 as claimed: after a write completed with an error, the promise is
\* rejected, nothing is notified, and the cached value is the one the
\* property had when the write was issued.
C5_CachedAsWhenIssued ==
  WriteFailed(trace) =>
    /\ Len(trace) = 2 /\ trace[2].op = "reject"
    /\ props[WrittenProp(trace)].value = trace[1].cachedAtIssue

\* C5 as amended: the completion of a failed write rejects the promise,
\* notifies nothing and leaves every property as it was just before the
\* completion was delivered.
C5_FailedCompletionChangesNothing ==
  [][WriteFailed(trace') =>
       /\ Len(trace') = 2
       /\ trace'[2].op = "reject"
       /\ WrittenProp(trace') = <<trace'[2].pin, trace'[2].prop>>
       /\ props' = props]_vars

\* A write failed whose value differs from the cached one.
C5_Witness ==
  /\ WriteFailed(trace)
  /\ trace[1].value # props[WrittenProp(trace)].value

(***************************************************************************)
(* C6  Write-readback mismatch: after a write that completed without       *)
(* error, the value the promise resolved with and the cached value are     *)
(* the level the line actually has.                                        *)
(***************************************************************************)
C6_ResolvesWithActualLevel ==
  WriteSucceeded(trace) =>
    LET k == WrittenProp(trace)
        actual == (level[k[1]] # 0)
    IN  /\ props[k].value = actual
        /\ \A i \in OpsOf(trace, k, "resolve") : trace[i].value = actual

EventFor(value) == IF value THEN "pressed" ELSE "released"

(***************************************************************************)
(* C7  Event derivation.  A step that changes the cached value of a        *)
(* 'pushed' property emits exactly one event for its device: 'pressed'     *)
(* when the value became true, 'released' when it became false; and every  *)
(* event emitted for the device names the value just stored.               *)
(***************************************************************************)
C7_EventDerivation ==
  [][\A k \in DOMAIN props :
       props[k].atType = "PushedProperty" =>
         LET ev == PinOps(trace', k[1], "notifyEvent")
         IN  /\ props'[k].value # props[k].value => Cardinality(ev) = 1
             /\ \A i \in ev : trace'[i].event = EventFor(props'[k].value)]_vars

\* The first level change of a run was dispatched and turned a 'pushed'
\* property from false to true, emitting 'pressed'.
C7_Witness ==
  \E k \in DOMAIN props :
    /\ props[k].atType = "PushedProperty" /\ props[k].value
    /\ stimuli = 1 /\ EdgeDispatchedFor(trace, k)
    /\ \E i \in PinOps(trace, k[1], "notifyEvent") : trace[i].event = "pressed"

OutputBuilt(tr, pin) ==
  /\ HandlerIs(tr, "Gpio")
  /\ tr[1].pin = pin /\ tr[1].direction = "out" /\ ~tr[1].threw

InitialLevel(cfg) ==
  IF hasOwnProperty(cfg, "value") /\ cfg.value = "1" THEN 1 ELSE 0

(***************************************************************************)
(* C8  Output initial value ordering.  Constructing an output device sets  *)
(* the direction (which leaves the line low), then writes the initial      *)
(* value exactly once (low unless the configured value is 1), and only     *)
(* then reads the pin once for the initial cached value, which therefore   *)
(* is the value written.                                                   *)
(***************************************************************************)
C8_OutputInitialOrdering ==
  \A pin \in Pins :
    OutputBuilt(trace, pin) =>
      LET ds == PinOps(trace, pin, "directionSet")
          ws == PinOps(trace, pin, "writeSync")
          rs == PinOps(trace, pin, "readSync")
          cs == OpsOf(trace, <<pin, "on">>, "setCachedValue")
      IN  /\ Cardinality(ds) = 1 /\ Cardinality(ws) = 1
          /\ Cardinality(rs) = 1 /\ Cardinality(cs) = 1
          /\ \A d \in ds, w \in ws, r \in rs, c \in cs :
               /\ d < w /\ w < r /\ r < c
               /\ trace[d].level = 0
               /\ trace[w].level = InitialLevel(gpios[pin])
               /\ trace[r].level = trace[w].level
               /\ trace[c].value = (trace[w].level = 1)
          /\ props[<<pin, "on">>].value = (InitialLevel(gpios[pin]) = 1)

\* An output device with initial value 1 was built and caches true.
C8_Witness ==
  \E pin \in Pins :
    /\ OutputBuilt(trace, pin)
    /\ InitialLevel(gpios[pin]) = 1
    /\ props[<<pin, "on">>].value

Supported(pin) == ResolvePinConfig(pin, gpios[pin]).direction \in {"in", "out"}

(***************************************************************************)
(* C9  Open-failure isolation: when opening one pin failed, every other    *)
(* configured pin with a supported direction is registered once the        *)
(* adapter is running.                                                     *)
(***************************************************************************)
C9_OpenFailureIsolation ==
  (pc = "running" /\ threw) =>
    \A pin \in DOMAIN gpios \ {Head(todo)} : Supported(pin) => pin \in registered

(***************************************************************************)
(* C10  Persistence error is non-fatal: when db.saveConfig failed, the     *)
(* adapter is still constructed.                                           *)
(***************************************************************************)
C10_SaveFailureNonFatal ==
  saveState = "failed" => pc \in {"adapter", "devices", "running"}

\* Pin p has a record under 'pins' and one under the object form of 'gpios'.
ConfiguredInBoth(p) ==
  /\ hasOwnProperty(installedConfig, "pins")
  /\ p \in DOMAIN installedConfig.pins
  /\ hasOwnProperty(installedConfig, "gpios")
  /\ ~installedConfig.gpios.isArray
  /\ p \in DOMAIN installedConfig.gpios.map

\* The keys of a record the constructor's array path carries over.
ArrayKeys == {"name", "direction", "value", "activeLow"}

(***************************************************************************)
(* C11  Merge precedence.  For a pin with a record under 'pins' and one    *)
(* under the object form of 'gpios', the record of 'gpios' is the one in   *)
(* effect: the map the constructor iterates over has its name, direction,  *)
(* value and activeLow, the device built for the pin has its name, and     *)
(* the array handed to db.saveConfig has exactly one entry for the pin,    *)
(* which is that record with the pin number added.                         *)
(***************************************************************************)
C11_MergePrecedence ==
  \A p \in Pins :
    ConfiguredInBoth(p) =>
      LET winner == installedConfig.gpios.map[p]
      IN  /\ pc \in {"devices", "running"} =>
                \A f \in ArrayKeys : Get(gpios[p], f) = Get(winner, f)
          /\ (p \in DOMAIN pinConfig /\ hasOwnProperty(winner, "name")) =>
                pinConfig[p].name = winner.name
          /\ saveState # "none" =>
                /\ Cardinality({i \in 1..Len(savedGpios) :
                                  savedGpios[i].pin = p}) = 1
                /\ \E i \in 1..Len(savedGpios) :
                     savedGpios[i] = ObjectAssign(winner, [pin |-> p])

\* A pin named 'a' under 'pins' and 'b' under 'gpios' was migrated, saved
\* and built with the name 'b'.
C11_Witness ==
  \E p \in Pins :
    /\ ConfiguredInBoth(p)
    /\ Get(installedConfig.pins[p], "name") = "a"
    /\ Get(installedConfig.gpios.map[p], "name") = "b"
    /\ saveState = "ok"
    /\ pc = "running"
    /\ p \in DOMAIN pinConfig /\ pinConfig[p].name = "b"

\* The stored configuration is in the current form only: no 'pins', and
\* 'gpios' an array with at most one entry per pin.
CanonicalConfig ==
  /\ ~hasOwnProperty(installedConfig, "pins")
  /\ hasOwnProperty(installedConfig, "gpios")
  /\ installedConfig.gpios.isArray
  /\ \A i, j \in 1..Len(installedConfig.gpios.items) :
       installedConfig.gpios.items[i].pin = installedConfig.gpios.items[j].pin
         => i = j

(***************************************************************************)
(* C12  Configuration round trip.  When the stored configuration is an     *)
(* array with one entry per pin, the record a pin's device works with has  *)
(* every field of the pin's entry with the entry's value; in particular    *)
(* its edge and its debounce are the configured ones.                      *)
(***************************************************************************)
C12_ArrayEntryInEffect ==
  CanonicalConfig =>
    \A i \in 1..Len(installedConfig.gpios.items) :
      LET entry == installedConfig.gpios.items[i]
      IN  entry.pin \in DOMAIN pinConfig =>
            \A f \in DOMAIN entry \ {"pin"} :
              /\ f \in DOMAIN pinConfig[entry.pin]
              /\ pinConfig[entry.pin][f] = entry[f]

(***************************************************************************)
(* C13  Immediate accept.  When the dispatch of an edge starts a debounce  *)
(* period of a property (it calls setTimeout for it), the same dispatch    *)
(* has read the pin and updated the property with a change notification    *)
(* before that, so the cached value is the pin's level at the edge.        *)
(***************************************************************************)
C13_ImmediateAccept ==
  \A k \in DOMAIN props :
    \A t \in OpsOf(trace, k, "setTimeout") :
      /\ \E r \in OpsOf(trace, k, "readSync") :
           \E n \in OpsOf(trace, k, "notifyPropertyChanged") : r < n /\ n < t
      /\ props[k].debouncing /\ props[k].timer = pinConfig[k[1]].debounce
      /\ props[k].value = (level[k[1]] # 0)

\* The properties of a pin's device that have a setTimeout pending.
TimersOfPin(pin) ==
  {k \in DOMAIN props : k[1] = pin /\ props[k].timer # NoTimer}

(***************************************************************************)
(* C14  At most one pending debounce timer per pin, counting the timers    *)
(* of every property of the pin's device.                                  *)
(***************************************************************************)
C14_OneTimerPerPin ==
  \A pin \in Pins : Cardinality(TimersOfPin(pin)) <= 1

\* 1 when the handler that ran last completed a write of property k without
\* error, 0 otherwise.
WritesCompleted(tr, k) ==
  IF WriteSucceeded(tr) THEN (IF WrittenProp(tr) = k THEN 1 ELSE 0) ELSE 0

(***************************************************************************)
(* C15  Exactly one notification per accepted operation.  In every         *)
(* handler, the property-changed notifications of a property are as many   *)
(* as its pin reads by update() plus its writes completed without error;   *)
(* each notification comes after a setCachedValue of its own, carries the  *)
(* value that was set, and the last one carries the cached value.  The     *)
(* notification does not depend on the value having changed.               *)
(***************************************************************************)
C15_OneNotificationPerOperation ==
  \A k \in DOMAIN props :
    LET reads == OpsOf(trace, k, "readSync")
        sets == OpsOf(trace, k, "setCachedValue")
        notes == OpsOf(trace, k, "notifyPropertyChanged")
    IN  /\ Cardinality(notes) = Cardinality(reads) + WritesCompleted(trace, k)
        /\ Cardinality(sets) = Cardinality(notes)
        /\ \A n \in notes :
             \E c \in sets :
               /\ c < n
               /\ trace[c].value = trace[n].value
               /\ \A m \in notes \cup sets : ~(c < m /\ m < n)
        /\ \A n \in notes :
             (\A m \in notes : m <= n) => trace[n].value = props[k].value

\* The only call of setValue of a run asked for the value already cached,
\* its write completed without error and a notification was sent.
C15_Witness ==
  /\ WriteSucceeded(trace)
  /\ stimuli = 1
  /\ trace[1].value = trace[1].cachedAtIssue
  /\ OpsOf(trace, WrittenProp(trace), "notifyPropertyChanged") # {}

\* The records the stored configuration holds for pin p, in any of its forms.
RecordsOf(p) ==
  (IF hasOwnProperty(installedConfig, "pins")
   THEN {installedConfig.pins[q] : q \in DOMAIN installedConfig.pins \cap {p}}
   ELSE {})
  \cup
  (IF hasOwnProperty(installedConfig, "gpios")
   THEN {installedConfig.gpios.map[q] :
           q \in DOMAIN installedConfig.gpios.map \cap {p}}
        \cup {installedConfig.gpios.items[i] :
                i \in {j \in 1..Len(installedConfig.gpios.items) :
                         installedConfig.gpios.items[j].pin = p}}
   ELSE {})

(***************************************************************************)
(* C16  Direction defaulting.  In every form of the configuration, a pin   *)
(* none of whose records names a direction gets, when its device is        *)
(* constructed, the direction 'in': the device is registered and its       *)
(* properties watch the pin's edges.                                       *)
(***************************************************************************)
C16_DirectionDefaultsToInput ==
  \A p \in DOMAIN pinConfig :
    (\A r \in RecordsOf(p) : ~hasOwnProperty(r, "direction")) =>
      /\ pinConfig[p].direction = "in"
      /\ p \in registered
      /\ <<p, "on">> \in DOMAIN props /\ props[<<p, "on">>].watching

(***************************************************************************)
(* C20  Migration never drops a configured pin.  Every pin that has a      *)
(* record in the stored configuration, under 'pins', under the object      *)
(* form of 'gpios' or in the array form of 'gpios', has exactly one entry  *)
(* in the array handed to db.saveConfig, when one is saved, and a device   *)
(* is constructed for it when the constructor runs to its end.             *)
(***************************************************************************)
C20_MigrationKeepsEveryPin ==
  \A p \in Pins :
    RecordsOf(p) # {} =>
      /\ saveState # "none" =>
           Cardinality({i \in 1..Len(savedGpios) : savedGpios[i].pin = p}) = 1
      /\ (pc = "running" /\ ~threw) => p \in DOMAIN pinConfig

(***************************************************************************)
(* C18  Convergence to the settled level.  For an input pin watched on     *)
(* both edges: whenever no edge of the pin is waiting to be dispatched     *)
(* and none of its properties has a timer pending, the cached value of     *)
(* each of its properties is the level the pin has, also when the level    *)
(* last changed inside a debounce period.                                  *)
(***************************************************************************)
C18_ConvergesToSettledLevel ==
  \A p \in InputPins :
    (/\ pinConfig[p].edge = "both"
     /\ pendingEdges[p] = 0
     /\ TimersOfPin(p) = {}) =>
      \A k \in DOMAIN props : k[1] = p => props[k].value = (level[p] # 0)

\* A timer fired after the level had changed inside its debounce period;
\* the edge of that change was dispatched and ignored, nothing is pending
\* and the cached value is the level the pin settled at.
C18_Witness ==
  \E k \in DOMAIN props :
    /\ TimerFiredFor(trace, k)
    /\ pinConfig[k[1]].edge = "both"
    /\ windowLevel[k] # level[k[1]]
    /\ pendingEdges[k[1]] = 0 /\ TimersOfPin(k[1]) = {}
    /\ props[k].value = (level[k[1]] # 0)

(***************************************************************************)
(* C19  The two properties of an input device agree.  Whenever neither     *)
(* 'on' nor 'pushed' of an input pin has a timer pending, and no edge of   *)
(* the pin is waiting to be dispatched or being dispatched, the two        *)
(* cached values are equal (in a run whose constructor did not throw).     *)
(***************************************************************************)
C19_PropertiesAgree ==
  \A p \in InputPins :
    (/\ <<p, "on">> \in DOMAIN props /\ <<p, "pushed">> \in DOMAIN props
     /\ TimersOfPin(p) = {}
     /\ pendingEdges[p] = 0
     /\ ~timersPhase
     /\ ~threw) =>
      props[<<p, "on">>].value = props[<<p, "pushed">>].value

\* The debounce period of property k has just ended: its timer callback ran,
\* made one read of the pin and stored the level read.
SettleRead(k) ==
  /\ TimerFiredFor(trace, k)
  /\ ~props[k].debouncing /\ props[k].timer = NoTimer
  /\ Cardinality(OpsOf(trace, k, "readSync")) = 1
  /\ props[k].value = (level[k[1]] # 0)

(***************************************************************************)
(* C17  The debounce window always ends.  Whenever a property is in a      *)
(* debounce period, its timer callback eventually runs, makes one read     *)
(* that updates the cached value and ends the period, whatever edges       *)
(* arrive in between (given that time passes and due timers are run).      *)
(***************************************************************************)
C17_WindowAlwaysEnds ==
  \A k \in PropertyKeys :
    (k \in DOMAIN props /\ props[k].debouncing)
      ~> (k \in DOMAIN props /\ SettleRead(k))

\* A debounce period ended with its one read after the level had changed
\* twice, so that edges arrived while it ran.
C17_Witness ==
  \E k \in DOMAIN props :
    /\ SettleRead(k)
    /\ stimuli >= 2
    /\ windowLevel[k] = level[k[1]]

====
